---- MODULE Spec2Model ----
(***************************************************************************)
(* A model of darglint's CYK parser (darglint/parse/cyk.py): the CykNode   *)
(* tree with its traversals, equality, reconstruction and line-number      *)
(* cache, and the table-filling parse function.                            *)
(***************************************************************************)
EXTENDS Integers, Sequences, FiniteSets, TLC

VARIABLES
    pc,          \* "ready" before the call modelled, "returned" after it
    grammar,     \* parse: the grammar argument
    tokens,      \* parse: the tokens argument of the last call
    run,         \* parse: the call's table P, the loop iterations <<l, s, p>> that stored a node (writes),
                 \* whether it ended in an IndexError (raised), and the value returned (result)
    self,        \* a CykNode method call: the receiver
    other,       \* a CykNode method call: the argument
    ret,         \* a CykNode method call: the value returned
    cache,       \* line_numbers: the _line_number_cache of every node of the tree
    stack,       \* line_numbers: the frames of _get_line_numbers_cached in progress, the innermost last
    val,         \* line_numbers: the value the call that just returned hands to the frame under it
    scratch,     \* line_numbers: the caches of a copy of the tree on which nothing was queried before
    queries,     \* line_numbers: the number of queries made
    nodes,       \* the CykNode objects constructed so far, each with whether the constructor was
                 \* called without an annotations argument (defaulted)
    lists        \* the content of every annotations list object, by identity

vars == <<pc, grammar, tokens, run, self, other, ret, cache, stack, val, scratch, queries, nodes, lists>>

\* Python's None.
None == [none |-> TRUE]

Max2(a, b) == IF a >= b THEN a ELSE b

----------------------------------------------------------------------------
(* Tokens and grammars: the inputs of parse.                               *)

\* Token(value, token_type, line_number)
Token(value, token_type, line_number) ==
    [value |-> value, token_type |-> token_type, line_number |-> line_number]

\* The identity of the shared list object that is the default of CykNode's annotations parameter.
DefaultAnnotations == 0

\* grammar.get_symbol_lookup(): the index of each production's symbol, in production order (0-based).
get_symbol_lookup(g) ==
    [sym \in {g.productions[i].lhs : i \in 1..Len(g.productions)} |->
        (CHOOSE i \in 1..Len(g.productions) : g.productions[i].lhs = sym) - 1]

----------------------------------------------------------------------------
(* CykNode.                                                                *)

\* The weight CykNode.__init__ stores: the explicit one when truthy, else the larger of the children's.
NodeWeight(lchild, rchild, weight) ==
    IF weight # 0 THEN weight
    ELSE Max2(0, Max2(IF lchild # None THEN lchild.weight ELSE 0,
                      IF rchild # None THEN rchild.weight ELSE 0))

\* A constructor that stores each child in the other's place.
CykNodeSwapped(symbol, lchild, rchild, value, annotations, weight) ==
    [symbol |-> symbol, lchild |-> rchild, rchild |-> lchild, value |-> value,
     annotations |-> annotations, weight |-> NodeWeight(lchild, rchild, weight)]

\* CykNode(symbol, lchild, rchild, value, annotations, weight); annotations is the identity of a list object.
CykNode(symbol, lchild, rchild, value, annotations, weight) ==
    [symbol |-> symbol, lchild |-> lchild, rchild |-> rchild, value |-> value,
     annotations |-> annotations, weight |-> NodeWeight(lchild, rchild, weight)]

RECURSIVE in_order_traverse(_)
\* The nodes of the tree, left subtree first, then the node, then the right subtree.
in_order_traverse(node) ==
    (IF node.lchild # None THEN in_order_traverse(node.lchild) ELSE <<>>)
    \o <<node>>
    \o (IF node.rchild # None THEN in_order_traverse(node.rchild) ELSE <<>>)

\* A node of a walk: the subtree and where it hangs under the receiver (0 for lchild, 1 for rchild).
Visit(node, path) == [node |-> node, path |-> path]

\* deque.popleft(): the left end leaves, which makes the queue of the walk a stack.
PopLeft(queue) == [item |-> queue[1], queue |-> SubSeq(queue, 2, Len(queue))]

\* deque.pop(): the right end leaves.
Pop(queue) == [item |-> queue[Len(queue)], queue |-> SubSeq(queue, 1, Len(queue) - 1)]

\* deque.appendleft(x): x enters at the left end.
AppendLeft(queue, x) == <<x>> \o queue

\* The body of the loop of breadth_first_walk after curr is popped: its children enter the queue.
Enqueue(queue, curr) ==
    LET q1 == IF curr.node.lchild # None
              THEN AppendLeft(queue, Visit(curr.node.lchild, Append(curr.path, 0))) ELSE queue
    IN  IF curr.node.rchild # None
        THEN AppendLeft(q1, Visit(curr.node.rchild, Append(curr.path, 1))) ELSE q1

RECURSIVE WalkLoop(_, _)
\* while queue: the nodes yielded, after those of yielded.
WalkLoop(queue, yielded) ==
    IF queue = <<>> THEN yielded
    ELSE WalkLoop(Enqueue(Pop(queue).queue, Pop(queue).item), Append(yielded, Pop(queue).item))

\* The nodes breadth_first_walk yields, in order.
breadth_first_walk(node) == WalkLoop(<<Visit(node, <<>>)>>, <<>>)

\* first_instance(symbol): the first node of the walk with that symbol, or None.
first_instance(node, symbol) ==
    LET walk == breadth_first_walk(node)
        hits == {i \in 1..Len(walk) : walk[i].node.symbol = symbol}
    IN  IF hits = {} THEN None ELSE walk[CHOOSE i \in hits : \A j \in hits : i <= j]

RECURSIVE equals(_, _)
\* self.equals(other)
equals(a, b) ==
    IF b = None THEN FALSE
    ELSE IF a.symbol # b.symbol THEN FALSE
    ELSE IF a.value # b.value THEN FALSE
    ELSE IF a.lchild # None /\ ~equals(a.lchild, b.lchild) THEN FALSE
    ELSE IF a.rchild # None /\ ~equals(a.rchild, b.rchild) THEN FALSE
    ELSE TRUE

\* WHITESPACE = {TokenType.INDENT, TokenType.NEWLINE}
WHITESPACE == {"INDENT", "NEWLINE"}

\* A string is a sequence of character codes; this one is ' '.
Space == <<32>>

\* The values of the nodes of a traversal that carry one ("if node.value").
Terminals(source) == SelectSeq([i \in 1..Len(source) |-> source[i].value], LAMBDA v : v # None)

\* The size of the sliding window of reconstruct_string.
window_size == 3

\* deque(maxlen=window_size).append(x): the left end leaves when the deque is full.
WindowAppend(window, x) ==
    IF Len(window) = window_size THEN Append(Tail(window), x) ELSE Append(window, x)

\* What the loops add to ret for the pair (left, right) of the window: right's text, after a
\* space unless one of the two is whitespace or right is a colon.
Glue(left, right) ==
    IF left.token_type \in WHITESPACE \/ right.token_type \in WHITESPACE \/ right.token_type = "COLON"
    THEN right.value
    ELSE Space \o right.value

\* "Fill the buffer": the window and what is left of the source when the filling loop ends.
FillWindow(source) ==
    LET values == Terminals(source)
        taken == IF Len(values) < window_size THEN Len(values) ELSE window_size
    IN  [window |-> SubSeq(values, 1, taken), rest |-> SubSeq(values, taken + 1, Len(values))]

RECURSIVE SlideWindow(_, _, _)
\* "Slide the window": while len(window) > 1, with rest the values the source still holds.
SlideWindow(window, rest, text) ==
    IF Len(window) <= 1 THEN [window |-> window, text |-> text]
    ELSE IF rest = <<>> THEN [window |-> window, text |-> text \o Glue(window[1], window[2])]
    ELSE SlideWindow(WindowAppend(window, Head(rest)), Tail(rest), text \o Glue(window[1], window[2]))

\* A reconstruction without the block after the sliding loop.
WindowTailDropped(window, text) == text

\* The block after the sliding loop: the last token of a full window is still to be added.
WindowTail(window, text) ==
    IF Len(window) = 3 THEN text \o Glue(window[2], window[3]) ELSE text

\* self.reconstruct_string()
reconstruct_string(node) ==
    LET filled == FillWindow(in_order_traverse(node))
    IN  IF filled.window = <<>> THEN <<>>
        ELSE LET slid == SlideWindow(filled.window, filled.rest, filled.window[1].value)
             IN  WindowTail(slid.window, slid.text)

\* MAX_TREE_HEIGHT = 300
MAX_TREE_HEIGHT == 300

\* A tree whose nodes are objects with a cache each: nodes are numbered from 1, and lchild, rchild
\* and value give each node's fields; NoNode stands for an absent child.
NoNode == 0

\* The tuple (first, last) of line numbers.
Lines(first, last) == [first |-> first, last |-> last]

\* A frame of _get_line_numbers_cached(recurse) on a node: at "enter" before its first statement,
\* at "left" while the call on lchild runs, at "right" while the call on rchild runs.
Frame(node, recurse) == [node |-> node, recurse |-> recurse, at |-> "enter", leftmost |-> -1]

\* The innermost frame of m = [stack, cache, val].
Top(m) == m.stack[Len(m.stack)]

\* return v: the innermost frame ends and hands v to the one under it.
ReturnFrom(m, v) == [m EXCEPT !.stack = SubSeq(@, 1, Len(@) - 1), !.val = v]

\* self._line_number_cache = (leftmost, rightmost); return it.
StoreAndReturn(m, lines) == ReturnFrom([m EXCEPT !.cache[Top(m).node] = lines], lines)

\* The call on a child of the innermost frame, which waits for it at the given place.
CallChild(m, child, at, leftmost) ==
    [m EXCEPT !.stack = Append([@ EXCEPT ![Len(@)].at = at, ![Len(@)].leftmost = leftmost],
                                Frame(child, Top(m).recurse + 1)),
              !.val = None]

\* From "rightmost = leftmost" on: the call on rchild when there is one, else the result.
FromRightmost(t, m, leftmost) ==
    IF t.rchild[Top(m).node] # NoNode
    THEN CallChild(m, t.rchild[Top(m).node], "right", leftmost)
    ELSE StoreAndReturn(m, Lines(leftmost, leftmost))

\* The innermost frame runs from its first statement to its first call or its return.
EnterFrame(t, m) ==
    IF Top(m).recurse > MAX_TREE_HEIGHT THEN ReturnFrom(m, Lines(-1, -1))
    ELSE IF t.value[Top(m).node] # None
         THEN ReturnFrom(m, Lines(t.value[Top(m).node].line_number, t.value[Top(m).node].line_number))
    ELSE IF m.cache[Top(m).node] # None THEN ReturnFrom(m, m.cache[Top(m).node])
    ELSE IF t.lchild[Top(m).node] # NoNode THEN CallChild(m, t.lchild[Top(m).node], "left", -1)
    ELSE FromRightmost(t, m, -1)

\* The innermost frame runs on with the value m.val its child returned, to its next call or its return.
ResumeFrame(t, m) ==
    IF Top(m).at = "left" THEN FromRightmost(t, m, m.val.first)
    ELSE StoreAndReturn(m, Lines(Top(m).leftmost, m.val.last))

----------------------------------------------------------------------------
(* parse.                                                                  *)

\* A Python list index: negative indices count from the end.
PyIndex(i, n) == IF i < 0 THEN i + n ELSE i

\* Whether indexing a list of length n with i succeeds.
InRange(i, n) == -n <= i /\ i < n

\* P[i][j][k] with Python's indexing.
Cell(P, n, i, j, k) == P[PyIndex(i, n)][PyIndex(j, n)][k]

\* The table of None that parse allocates: n x n x r.
EmptyTable(n, r) == [i \in 0..(n - 1) |-> [j \in 0..(n - 1) |-> [k \in 0..(r - 1) |-> None]]]

\* One evaluation of the innermost body of the base-case loop on st = [P, writes, raised]:
\* token s, production v, rhs k.
BaseStep(g, toks, st, s, v, k) ==
    LET production == g.productions[v + 1]
        rhs == production.rhs[k]
    IN  IF Len(rhs) > 2 THEN st
        ELSE IF toks[s + 1].token_type = rhs[1]
             THEN [st EXCEPT !.P[0][s][v] =
                      CykNode(production.lhs, None, None, toks[s + 1], DefaultAnnotations, rhs[2])]
             ELSE st

\* The iteration of the base-case loop after <<s, v, k>>: the next rhs, else the next production, else the next token.
BaseAdvance(g, it) ==
    IF it[3] < Len(g.productions[it[2] + 1].rhs) THEN <<it[1], it[2], it[3] + 1>>
    ELSE IF it[2] + 1 < Len(g.productions) THEN <<it[1], it[2] + 1, 1>>
    ELSE <<it[1] + 1, 0, 1>>

RECURSIVE BaseLoop(_, _, _, _)
\* The base-case loop from iteration it = <<s, v, k>> on; an exception ends it.
BaseLoop(g, toks, st, it) ==
    IF st.raised \/ it[1] >= Len(toks) THEN st
    ELSE IF it[3] > Len(g.productions[it[2] + 1].rhs) THEN BaseLoop(g, toks, st, BaseAdvance(g, it))
    ELSE BaseLoop(g, toks, BaseStep(g, toks, st, it[1], it[2], it[3]), BaseAdvance(g, it))

\* Whether the candidate of a binary rule is dropped: an entry is there and its weight exceeds the rule's.
Discarded(old, weight) == old # None /\ old.weight > weight

\* One evaluation of the innermost body of the inductive loop on st = [P, writes, raised].
InductiveStep(g, n, lookup, st, l, s, p, a, k) ==
    LET production == g.productions[a + 1]
        derivation == production.rhs[k]
    IN  IF Len(derivation) <= 2 THEN st
        ELSE
        LET annotations == derivation[1]
            B == derivation[2]
            C == derivation[3]
            weight == derivation[4]
            b == lookup[B]
            c == lookup[C]
        IN  IF ~(InRange(p - 1, n) /\ InRange(s - 1, n) /\ InRange(l - p - 1, n)
                 /\ InRange(s + p - 1, n) /\ InRange(l - 1, n))
            THEN [st EXCEPT !.raised = TRUE]
            ELSE
            LET lchild == Cell(st.P, n, p - 1, s - 1, b)
                rchild == Cell(st.P, n, l - p - 1, s + p - 1, c)
            IN  IF lchild # None /\ rchild # None
                THEN LET old == Cell(st.P, n, l - 1, s - 1, a)
                     IN  IF Discarded(old, weight) THEN st
                         ELSE [st EXCEPT
                                 !.P[PyIndex(l - 1, n)][PyIndex(s - 1, n)][a] =
                                     CykNode(production.lhs, lchild, rchild, None, annotations, weight),
                                 !.writes = @ \cup {<<l, s, p>>}]
                ELSE st

\* A range of s one longer than the code's: range(n - l + 3).
StartStopLong(n, l) == n - l + 3

\* A range of p one shorter than the code's: range(l - 1).
SplitStopShort(l) == l - 1

\* The end of the range of s in the inductive loop for span length l: range(n - l + 2).
StartStop(n, l) == n - l + 2

\* The end of the range of p in the inductive loop for span length l: range(l).
SplitStop(l) == l

\* The first s and the first p visited: 0 as in the code, or 1 when the iterations with a
\* negative table index are skipped.
RangeStart(guarded) == IF guarded THEN 1 ELSE 0

\* The first iteration <<l, s, p, a, k>> of the inductive loop from span length l on, or <<>> when there is none.
FirstOfLength(g, n, l, guarded) ==
    IF l > n \/ Len(g.productions) = 0 THEN <<>>
    ELSE <<l, RangeStart(guarded), RangeStart(guarded), 0, 1>>

\* The iteration of the inductive loop after it: the next derivation, else the next production,
\* else the next split, else the next start, else the next span length.
Advance(g, n, it, guarded) ==
    IF it[5] < Len(g.productions[it[4] + 1].rhs) THEN [it EXCEPT ![5] = @ + 1]
    ELSE IF it[4] + 1 < Len(g.productions) THEN [it EXCEPT ![4] = @ + 1, ![5] = 1]
    ELSE IF it[3] + 1 < SplitStop(it[1]) THEN [it EXCEPT ![3] = @ + 1, ![4] = 0, ![5] = 1]
    ELSE IF it[2] + 1 < StartStop(n, it[1])
         THEN [it EXCEPT ![2] = @ + 1, ![3] = RangeStart(guarded), ![4] = 0, ![5] = 1]
    ELSE FirstOfLength(g, n, it[1] + 1, guarded)

RECURSIVE InductiveLoop(_, _, _, _, _, _)
\* The inductive loop from iteration it on; an exception ends it.
InductiveLoop(g, n, lookup, st, it, guarded) ==
    IF st.raised \/ it = <<>> THEN st
    ELSE IF it[2] >= StartStop(n, it[1]) \/ it[3] >= SplitStop(it[1])
            \/ it[5] > Len(g.productions[it[4] + 1].rhs)
         THEN InductiveLoop(g, n, lookup, st, Advance(g, n, it, guarded), guarded)
    ELSE InductiveLoop(g, n, lookup,
                       InductiveStep(g, n, lookup, st, it[1], it[2], it[3], it[4], it[5]),
                       Advance(g, n, it, guarded), guarded)

\* What parse returns from the filled table: P[n - 1][0][lookup[grammar.start]].
Return(st, n, start) ==
    [P |-> st.P, writes |-> st.writes, raised |-> st.raised,
     result |-> IF st.raised THEN None ELSE st.P[n - 1][0][start]]

\* The run of parse(g, toks): [P, writes, raised, result]. With guarded, the inductive loop
\* skips the iterations whose table indices are negative.
ParseRun(g, toks, guarded) ==
    IF Len(toks) = 0
    THEN [P |-> <<>>, writes |-> {}, raised |-> FALSE, result |-> None]
    ELSE Return(InductiveLoop(g, Len(toks), get_symbol_lookup(g),
                              BaseLoop(g, toks,
                                       [P |-> EmptyTable(Len(toks), Len(g.productions)),
                                        writes |-> {}, raised |-> FALSE],
                                       <<0, 0, 1>>),
                              FirstOfLength(g, Len(toks), 2, guarded), guarded),
                Len(toks), get_symbol_lookup(g)[g.start])

\* parse(grammar, tokens) as the code runs it.
parse(g, toks) == ParseRun(g, toks, FALSE)

----------------------------------------------------------------------------
(* The calls of parse explored.                                            *)

\* The longest token sequence parsed.
MaxTokens == 3

\* The largest rule weight.
MaxWeight == 2

TokenTypes == {"WORD", "COLON"}

Weights == 0..MaxWeight

\* The identity of the annotations list of the binary rules (a list object of the grammar).
RuleAnnotations == 1

TerminalRules == {<<"WORD", w>> : w \in Weights}

BinaryRules == {<<RuleAnnotations, B, C, w>> : B \in {"S", "A"}, C \in {"S", "A"}, w \in Weights}

Rules == TerminalRules \cup BinaryRules

\* The numbers of rules of the productions S and A.
RuleCounts == {<<1, 1>>, <<2, 1>>, <<1, 2>>}

\* Grammars with the productions S (any rules) and A (terminal rules for WORD), S the start symbol.
Grammars ==
    UNION {{[productions |-> <<[lhs |-> "S", rhs |-> rs], [lhs |-> "A", rhs |-> ra]>>, start |-> "S"] :
               rs \in [1..c[1] -> Rules], ra \in [1..c[2] -> TerminalRules]} : c \in RuleCounts}

\* Token sequences: the token at position i carries text i and line i.
TokenSeqs ==
    UNION {{[i \in 1..k |-> Token(i, tts[i], i)] : tts \in [1..k -> TokenTypes]} : k \in 0..MaxTokens}

\* The variables of line_numbers, when no query is modelled.
NoLines == cache = <<>> /\ stack = <<>> /\ val = None /\ scratch = <<>> /\ queries = 0

\* The variables of the objects constructed, when they are not modelled.
NoObjects == nodes = <<>> /\ lists = <<>>

\* No call made yet.
NoRun == [P |-> <<>>, writes |-> {}, raised |-> FALSE, result |-> None]

ParseInit ==
    /\ pc = "ready"
    /\ grammar \in Grammars
    /\ tokens = <<>>
    /\ run = NoRun
    /\ self = None /\ other = None /\ ret = None
    /\ NoLines
    /\ NoObjects

\* The call parse(grammar, toks).
Parse ==
    /\ pc = "ready"
    /\ \E toks \in TokenSeqs :
        /\ tokens' = toks
        /\ run' = parse(grammar, toks)
    /\ pc' = "returned"
    /\ UNCHANGED <<grammar, self, other, ret, cache, stack, val, scratch, queries, nodes, lists>>

ParseNext == Parse

ParseSpec == ParseInit /\ [][ParseNext]_vars

----------------------------------------------------------------------------
(* Properties of parse.                                                    *)

Returned == pc = "returned"

N == Len(tokens)

\* C1: whenever parse returns a tree, the terminal values met by in_order_traverse on its root
\* are the input tokens: the same tokens, in the same order, each once.
C1_OrderPreserved ==
    (Returned /\ run.result # None) => Terminals(in_order_traverse(run.result)) = tokens

\* A parse of the longest input returned a tree.
C1_Witness == Returned /\ run.result # None /\ N = MaxTokens

RECURSIVE Derives(_, _, _, _, _)
\* Whether symbol sym derives the len tokens of toks from position i (0-based) on: by a terminal
\* rule for one token, by a binary rule and a split in two nonempty parts for more.
Derives(g, toks, sym, i, len) ==
    \E v \in 1..Len(g.productions) :
        /\ g.productions[v].lhs = sym
        /\ \E k \in 1..Len(g.productions[v].rhs) :
            LET rule == g.productions[v].rhs[k]
            IN  IF Len(rule) = 2
                THEN len = 1 /\ toks[i + 1].token_type = rule[1]
                ELSE \E p \in 1..(len - 1) :
                        /\ Derives(g, toks, rule[2], i, p)
                        /\ Derives(g, toks, rule[3], i + p, len - p)

\* C2: parse returns a tree, whose root carries the start symbol, exactly when the tokens are
\* nonempty and derive from the start symbol; otherwise it returns None.
C2_Recognition ==
    Returned =>
        /\ ~run.raised
        /\ (run.result # None) <=> (N > 0 /\ Derives(grammar, tokens, grammar.start, 0, N))
        /\ run.result # None => run.result.symbol = grammar.start

\* The tokens of a call, more than one, derive from the start symbol and a tree with that root was returned.
C2_Witness ==
    /\ Returned /\ N >= 2
    /\ Derives(grammar, tokens, grammar.start, 0, N)
    /\ run.result # None /\ run.result.symbol = grammar.start

\* The table cell of an iteration <<l, s, p>>: <<length index, start index>> after Python's wrap.
Target(w) == <<w[1] - 1, PyIndex(w[2] - 1, N)>>

\* The two cells an iteration <<l, s, p>> reads its children from.
Sources(w) == {<<PyIndex(w[3] - 1, N), PyIndex(w[2] - 1, N)>>, <<w[1] - w[3] - 1, PyIndex(w[2] + w[3] - 1, N)>>}

\* An iteration with a negative table index: s - 1 = -1 or p - 1 = -1.
Wrapped(w) == w[2] = 0 \/ w[3] = 0

\* C10: parse never indexes the table out of range; the iterations with a negative index store
\* only in cells of start N - 1 and length at least 2; no other iteration reads such a cell; and
\* the tree returned is the one returned when those iterations are skipped.
C10_WrapHarmless ==
    Returned =>
        /\ ~run.raised
        /\ \A w \in run.writes : Wrapped(w) => (Target(w)[2] = N - 1 /\ Target(w)[1] >= 1)
        /\ \A w \in run.writes : ~Wrapped(w) =>
               /\ Target(w)[2] + Target(w)[1] + 1 <= N
               /\ \A u \in run.writes : Wrapped(u) => Target(u) \notin Sources(w)
        /\ run.result = ParseRun(grammar, tokens, TRUE).result

\* An iteration with a negative index stored a node, and a tree was returned.
C10_Witness == Returned /\ run.result # None /\ \E w \in run.writes : Wrapped(w) /\ w[1] = N

\* The candidates <<p, k>> for the cell of production a over the l tokens from s (0-based):
\* split p and binary rule k whose two children are in the table.
Candidates(l, s, a) ==
    {c \in (1..(l - 1)) \X (1..Len(grammar.productions[a + 1].rhs)) :
        LET rule == grammar.productions[a + 1].rhs[c[2]]
        IN  /\ Len(rule) > 2
            /\ run.P[c[1] - 1][s][get_symbol_lookup(grammar)[rule[2]]] # None
            /\ run.P[l - c[1] - 1][s + c[1]][get_symbol_lookup(grammar)[rule[3]]] # None}

\* The weight of the node built for candidate c.
CandidateWeight(l, s, a, c) ==
    LET rule == grammar.productions[a + 1].rhs[c[2]]
    IN  NodeWeight(run.P[c[1] - 1][s][get_symbol_lookup(grammar)[rule[2]]],
                   run.P[l - c[1] - 1][s + c[1]][get_symbol_lookup(grammar)[rule[3]]], rule[4])

\* The cells of spans of at least two tokens: <<l, s, a>>.
SpanCells == {c \in (2..N) \X (0..(N - 1)) \X (0..(Len(grammar.productions) - 1)) : c[2] + c[1] <= N}

\* C3: of the derivations competing for a cell, one of the largest node weight is retained,
\* whichever is evaluated first: no candidate is heavier than the node left in the cell.
C3_HeaviestRetained ==
    Returned =>
        \A cell \in SpanCells : \A c \in Candidates(cell[1], cell[2], cell[3]) :
            /\ run.P[cell[1] - 1][cell[2]][cell[3]] # None
            /\ run.P[cell[1] - 1][cell[2]][cell[3]].weight
                   >= CandidateWeight(cell[1], cell[2], cell[3], c)

\* The weights of the terminal rules of production v that match the token at s.
MatchingWeights(s, v) ==
    {grammar.productions[v + 1].rhs[k][2] :
        k \in {j \in 1..Len(grammar.productions[v + 1].rhs) :
                  /\ Len(grammar.productions[v + 1].rhs[j]) = 2
                  /\ grammar.productions[v + 1].rhs[j][1] = tokens[s + 1].token_type}}

\* C4: the leaf stored for a token and a production is built from the matching terminal rule of
\* highest weight: a later rule of lower weight does not replace it.
C4_HeaviestLeaf ==
    Returned =>
        \A s \in 0..(N - 1) : \A v \in 0..(Len(grammar.productions) - 1) :
            \A w \in MatchingWeights(s, v) : run.P[0][s][v] # None /\ run.P[0][s][v].weight >= w

----------------------------------------------------------------------------
(* The calls of CykNode.equals explored.                                   *)

\* The height of the tallest tree compared.
MaxEqualsHeight == 2

\* A node built with the default annotations and no weight.
Plain(symbol, lchild, rchild, value) == CykNode(symbol, lchild, rchild, value, DefaultAnnotations, 0)

RECURSIVE TreesUpTo(_, _, _)
\* None and the trees of at most the given height over the symbols and values.
TreesUpTo(height, symbols, values) ==
    IF height = 0 THEN {None}
    ELSE {None} \cup
         {Plain(sym, l, r, v) :
             sym \in symbols, v \in values,
             l \in TreesUpTo(height - 1, symbols, values), r \in TreesUpTo(height - 1, symbols, values)}

EqualsTrees == TreesUpTo(MaxEqualsHeight, {"S", "A"}, {None, Token(<<97>>, "WORD", 1)}) \ {None}

\* The variables of parse, when no call of parse is modelled.
NoParse == grammar = None /\ tokens = <<>> /\ run = NoRun

EqualsInit ==
    /\ pc = "ready"
    /\ self \in EqualsTrees
    /\ other \in EqualsTrees
    /\ ret = None
    /\ NoParse
    /\ NoLines
    /\ NoObjects

\* The calls self.equals(other) and other.equals(self).
Equals ==
    /\ pc = "ready"
    /\ ret' = [forth |-> equals(self, other), back |-> equals(other, self)]
    /\ pc' = "returned"
    /\ UNCHANGED <<grammar, tokens, run, self, other, cache, stack, val, scratch, queries, nodes, lists>>

EqualsNext == Equals

EqualsSpec == EqualsInit /\ [][EqualsNext]_vars

\* C5: equals is symmetric: a.equals(b) = b.equals(a) for any two trees, so a child present on
\* one side only makes both calls return false.
C5_EqualsSymmetric ==
    Returned =>
        /\ ret.forth = ret.back
        /\ ((self.lchild = None) # (other.lchild = None) \/ (self.rchild = None) # (other.rchild = None))
               => (~ret.forth /\ ~ret.back)

----------------------------------------------------------------------------
(* The calls of CykNode.reconstruct_string explored.                       *)

\* The most leaves of a tree reconstructed.
MaxLeaves == 4

LeafTypes == {"WORD", "COLON", "NEWLINE", "INDENT"}

\* The kinds of leaf: a token of one of the types, or a node without a value.
LeafKinds == LeafTypes \cup {"NONE"}

\* The leaf of a kind at position i: its token has its own text and line.
Leaf(i, kind) ==
    Plain("A", None, None, IF kind = "NONE" THEN None ELSE Token(<<96 + i>>, kind, i))

RECURSIVE Shapes(_)
\* The shapes of the binary trees with k leaves: each records its number of leaves and, when it
\* is not a leaf, its two subtrees.
Shapes(k) ==
    IF k = 1 THEN {[leaves |-> 1]}
    ELSE UNION {{[leaves |-> k, l |-> l, r |-> r] : l \in Shapes(p), r \in Shapes(k - p)} :
                   p \in 1..(k - 1)}

RECURSIVE Grow(_, _, _)
\* The tree of a shape whose leaves are, from left to right, those of the kinds from position i on.
Grow(shape, kinds, i) ==
    IF shape.leaves = 1 THEN Leaf(i, kinds[i])
    ELSE Plain("S", Grow(shape.l, kinds, i), Grow(shape.r, kinds, i + shape.l.leaves), None)

ReconstructInit ==
    /\ pc = "ready"
    /\ \E k \in 1..MaxLeaves : \E shape \in Shapes(k), kinds \in [1..k -> LeafKinds] :
           self = Grow(shape, kinds, 1)
    /\ other = None
    /\ ret = None
    /\ NoParse
    /\ NoLines
    /\ NoObjects

\* The call self.reconstruct_string().
Reconstruct ==
    /\ pc = "ready"
    /\ ret' = reconstruct_string(self)
    /\ pc' = "returned"
    /\ UNCHANGED <<grammar, tokens, run, self, other, cache, stack, val, scratch, queries, nodes, lists>>

ReconstructNext == Reconstruct

ReconstructSpec == ReconstructInit /\ [][ReconstructNext]_vars

\* The separator between two adjacent terminals: none when either is INDENT or NEWLINE or the
\* right one is a COLON, one space otherwise.
Separator(left, right) ==
    IF left.token_type \in {"INDENT", "NEWLINE"} \/ right.token_type \in {"INDENT", "NEWLINE"}
       \/ right.token_type = "COLON"
    THEN <<>> ELSE <<32>>

RECURSIVE Joined(_, _)
\* The texts of the first k terminals, each after its separator from the one before.
Joined(ts, k) ==
    IF k = 0 THEN <<>>
    ELSE IF k = 1 THEN ts[1].value
    ELSE Joined(ts, k - 1) \o Separator(ts[k - 1], ts[k]) \o ts[k].value

\* The terminals of the receiver, in order.
SelfTerminals == Terminals(in_order_traverse(self))

\* C6: reconstruct_string returns the texts of the terminals in order, each once, with no
\* separator next to INDENT or NEWLINE or before a COLON and one space otherwise; the empty
\* string when there is no terminal.
C6_Reconstruction ==
    Returned =>
        /\ ret = Joined(SelfTerminals, Len(SelfTerminals))
        /\ \A i \in 1..Len(SelfTerminals) :
               Cardinality({j \in 1..Len(ret) : <<ret[j]>> = SelfTerminals[i].value}) = 1

\* A tree of more than three terminals was reconstructed, with and without spaces.
C6_Witness ==
    /\ Returned
    /\ Len(SelfTerminals) > 3
    /\ \E i, j \in 1..Len(ret) : ret[i] = 32 /\ ret[j] # 32 /\ j < Len(ret) /\ ret[j + 1] # 32

----------------------------------------------------------------------------
(* The calls of CykNode.breadth_first_walk and first_instance explored.    *)

\* The most nodes of a tree walked.
MaxWalkNodes == 5

WalkSymbols == {"S", "B"}

RECURSIVE TreesOfSize(_)
\* The trees of exactly k nodes (None for k = 0).
TreesOfSize(k) ==
    IF k = 0 THEN {None}
    ELSE UNION {{Plain(sym, l, r, None) :
                    sym \in WalkSymbols, l \in TreesOfSize(i), r \in TreesOfSize(k - 1 - i)} :
                i \in 0..(k - 1)}

WalkTrees == UNION {TreesOfSize(k) : k \in 1..MaxWalkNodes}

WalkInit ==
    /\ pc = "ready"
    /\ self \in WalkTrees
    /\ other = None
    /\ ret = None
    /\ NoParse
    /\ NoLines
    /\ NoObjects

\* The call self.breadth_first_walk(), run to its end.
Walk ==
    /\ pc = "ready"
    /\ ret' = breadth_first_walk(self)
    /\ pc' = "walked"
    /\ UNCHANGED <<grammar, tokens, run, self, other, cache, stack, val, scratch, queries, nodes, lists>>

\* The call self.first_instance(symbol).
FirstInstance ==
    /\ pc = "ready"
    /\ \E symbol \in WalkSymbols \cup {"A"} :
        /\ other' = symbol
        /\ ret' = first_instance(self, symbol)
    /\ pc' = "searched"
    /\ UNCHANGED <<grammar, tokens, run, self, cache, stack, val, scratch, queries, nodes, lists>>

WalkNext == Walk \/ FirstInstance

WalkSpec == WalkInit /\ [][WalkNext]_vars

RECURSIVE Paths(_)
\* The places of the nodes of a tree: the sequences of 0 (lchild) and 1 (rchild) leading to them.
Paths(node) ==
    {<<>>}
    \cup (IF node.lchild # None THEN {<<0>> \o q : q \in Paths(node.lchild)} ELSE {})
    \cup (IF node.rchild # None THEN {<<1>> \o q : q \in Paths(node.rchild)} ELSE {})

RECURSIVE Subtree(_, _)
\* The node at a place.
Subtree(node, path) ==
    IF path = <<>> THEN node
    ELSE Subtree(IF Head(path) = 0 THEN node.lchild ELSE node.rchild, Tail(path))

\* Whether place p comes before place q in breadth-first order: it is shallower, or as deep and
\* further left.
Before(p, q) ==
    \/ Len(p) < Len(q)
    \/ /\ Len(p) = Len(q)
       /\ \E i \in 1..Len(p) : p[i] < q[i] /\ \A j \in 1..(i - 1) : p[j] = q[j]

\* C7: breadth_first_walk yields every node once, shallower nodes first and the nodes of one depth
\* from left to right; first_instance returns the first node of that order with the symbol, or
\* None when there is none.
C7_BreadthFirst ==
    /\ pc = "walked" =>
           /\ Len(ret) = Cardinality(Paths(self))
           /\ {ret[i].path : i \in 1..Len(ret)} = Paths(self)
           /\ \A i \in 1..Len(ret) : ret[i].node = Subtree(self, ret[i].path)
           /\ \A i, j \in 1..Len(ret) : i < j => Before(ret[i].path, ret[j].path)
    /\ pc = "searched" =>
           LET matches == {q \in Paths(self) : Subtree(self, q).symbol = other}
           IN  IF matches = {} THEN ret = None
               ELSE /\ ret # None
                    /\ ret.path \in matches
                    /\ ret.node = Subtree(self, ret.path)
                    /\ \A q \in matches \ {ret.path} : Before(ret.path, q)

\* A search returned the right child of the receiver although a deeper node of the left subtree,
\* earlier in the in-order traversal, carries the symbol too.
C7_Witness ==
    /\ pc = "searched"
    /\ ret # None
    /\ ret.path = <<1>>
    /\ <<0, 0>> \in Paths(self)
    /\ Subtree(self, <<0, 0>>).symbol = other

----------------------------------------------------------------------------
(* The queries of CykNode.line_numbers explored.                           *)

\* The tallest of the small trees queried.
MaxShortHeight == 2

\* By how much the tallest tree queried exceeds MAX_TREE_HEIGHT.
MaxExcess == 1

\* The depth of the deepest node queried.
MaxQueryDepth == 1

\* The most queries made on one tree.
MaxQueries == 2

\* A tree of the given height: nodes 1..height with the next node as lchild, the leaf height + 1
\* on line 1 and, when withRight, a leaf on line 2 as rchild of the root.
Spine(height, withRight) ==
    LET ids == 1..(height + (IF withRight THEN 2 ELSE 1))
    IN  [lchild |-> [i \in ids |-> IF i <= height THEN i + 1 ELSE NoNode],
         rchild |-> [i \in ids |-> IF i = 1 /\ withRight THEN height + 2 ELSE NoNode],
         value |-> [i \in ids |-> IF i = height + 1 THEN Token(<<97>>, "WORD", 1)
                                     ELSE IF i = height + 2 THEN Token(<<98>>, "WORD", 2)
                                     ELSE None]]

SpineHeights == (1..MaxShortHeight) \cup ((MAX_TREE_HEIGHT - 1)..(MAX_TREE_HEIGHT + MaxExcess))

\* No node has cached its line numbers.
NoCache(t) == [i \in DOMAIN t.value |-> None]

LinesInit ==
    /\ pc = "ready"
    /\ self \in {Spine(h, w) : h \in SpineHeights, w \in BOOLEAN}
    /\ cache = NoCache(self)
    /\ scratch = NoCache(self)
    /\ stack = <<>>
    /\ val = None
    /\ other = None
    /\ ret = None
    /\ queries = 0
    /\ NoParse
    /\ NoObjects

\* x.line_numbers is read: _get_line_numbers_cached() starts on node x.
Query ==
    /\ pc = "ready"
    /\ queries < MaxQueries
    /\ \E x \in {i \in DOMAIN self.value : i <= MaxQueryDepth + 1} :
        /\ other' = x
        /\ stack' = <<Frame(x, 0)>>
    /\ val' = None
    /\ pc' = "query"
    /\ queries' = queries + 1
    /\ UNCHANGED <<grammar, tokens, run, self, ret, cache, scratch, nodes, lists>>

\* The machine of the query in progress: on the tree's caches, or on those of the fresh copy.
Machine == [stack |-> stack, val |-> val, cache |-> IF pc = "query" THEN cache ELSE scratch]

\* The machine after a step.
Moved(m) ==
    /\ stack' = m.stack
    /\ val' = m.val
    /\ IF pc = "query" THEN cache' = m.cache /\ UNCHANGED scratch
                       ELSE scratch' = m.cache /\ UNCHANGED cache
    /\ UNCHANGED <<pc, grammar, tokens, run, self, other, ret, queries, nodes, lists>>

\* The innermost call starts.
Enter ==
    /\ pc \in {"query", "fresh"}
    /\ stack # <<>>
    /\ val = None
    /\ Moved(EnterFrame(self, Machine))

\* The innermost call goes on after the call it made returned.
Resume ==
    /\ pc \in {"query", "fresh"}
    /\ stack # <<>>
    /\ val # None
    /\ Moved(ResumeFrame(self, Machine))

\* The query returns; the same query starts on a copy of the tree whose caches are all empty.
Answer ==
    /\ pc = "query"
    /\ stack = <<>>
    /\ ret' = [node |-> other, lines |-> val, fresh |-> None]
    /\ scratch' = NoCache(self)
    /\ stack' = <<Frame(other, 0)>>
    /\ val' = None
    /\ pc' = "fresh"
    /\ UNCHANGED <<grammar, tokens, run, self, other, cache, queries, nodes, lists>>

\* The query on the fresh copy returns.
Recomputed ==
    /\ pc = "fresh"
    /\ stack = <<>>
    /\ ret' = [ret EXCEPT !.fresh = val]
    /\ val' = None
    /\ pc' = "ready"
    /\ UNCHANGED <<grammar, tokens, run, self, other, cache, scratch, stack, queries, nodes, lists>>

LinesNext == Query \/ Enter \/ Resume \/ Answer \/ Recomputed

LinesSpec == LinesInit /\ [][LinesNext]_vars

\* C8: whatever was queried before, x.line_numbers returns what it returns on a tree on which
\* nothing was queried before.
C8_HistoryIndependent == (pc = "ready" /\ ret # None) => ret.lines = ret.fresh

----------------------------------------------------------------------------
(* The constructions of CykNode objects and their annotations lists.       *)

\* The most CykNode objects kept.
MaxObjects == 3

\* The most annotations added to one list.
MaxAnnotations == 1

\* The grammars of the calls of parse that construct nodes: one rule per production, no weights.
ObjectGrammars ==
    {g \in Grammars : \A i \in 1..2 : /\ Len(g.productions[i].rhs) = 1
                                       /\ g.productions[i].rhs[1][Len(g.productions[i].rhs[1])] = 0}

\* An object with how its constructor was called.
Object(node, defaulted) == [node |-> node, defaulted |-> defaulted]

\* The identity of a list object created by a caller: one not used yet.
NewList == Cardinality(DOMAIN lists)

\* The list objects that exist before any construction: the default of the annotations parameter,
\* made once when CykNode.__init__ is defined, and the annotations list of the grammar's rules.
ListsAtStart == [i \in {DefaultAnnotations, RuleAnnotations} |-> <<>>]

ObjectsInit ==
    /\ pc = "ready"
    /\ grammar \in ObjectGrammars
    /\ tokens = <<>>
    /\ run = NoRun
    /\ self = None /\ other = None /\ ret = None
    /\ NoLines
    /\ nodes = <<>>
    /\ lists = ListsAtStart

\* CykNode(symbol): a construction with no annotations argument.
ConstructDefault ==
    /\ Len(nodes) < MaxObjects
    /\ \E symbol \in {"S", "A"} :
        nodes' = Append(nodes, Object(CykNode(symbol, None, None, None, DefaultAnnotations, 0), TRUE))
    /\ UNCHANGED <<pc, grammar, tokens, run, self, other, ret, cache, stack, val, scratch, queries, lists>>

\* CykNode(symbol, annotations=[]): a construction with a list of the caller's.
ConstructWith ==
    /\ Len(nodes) < MaxObjects
    /\ \E symbol \in {"S", "A"} :
        nodes' = Append(nodes, Object(CykNode(symbol, None, None, None, NewList, 0), FALSE))
    /\ lists' = [i \in DOMAIN lists \cup {NewList} |-> IF i \in DOMAIN lists THEN lists[i] ELSE <<>>]
    /\ UNCHANGED <<pc, grammar, tokens, run, self, other, ret, cache, stack, val, scratch, queries>>

\* The nodes in the table of a run, in table order: those of the base case were constructed
\* with no annotations argument, the others with the list of their rule.
Constructed(r, n, productions) ==
    LET cells == {c \in (0..(n - 1)) \X (0..(n - 1)) \X (0..(productions - 1)) : r.P[c[1]][c[2]][c[3]] # None}
        Rank(c) == (c[1] * n + c[2]) * productions + c[3]
        Nth(k) == CHOOSE c \in cells : Cardinality({d \in cells : Rank(d) < Rank(c)}) = k - 1
    IN  [k \in 1..Cardinality(cells) |-> Object(r.P[Nth(k)[1]][Nth(k)[2]][Nth(k)[3]], Nth(k)[1] = 0)]

\* A call parse(grammar, toks): the nodes it leaves in its table join the objects.
ParseCall ==
    /\ Len(nodes) < MaxObjects
    /\ \E toks \in TokenSeqs :
        /\ Len(toks) > 0
        /\ tokens' = toks
        /\ run' = parse(grammar, toks)
        /\ Len(nodes) + Len(Constructed(run', Len(toks), Len(grammar.productions))) <= MaxObjects
        /\ nodes' = nodes \o Constructed(run', Len(toks), Len(grammar.productions))
    /\ UNCHANGED <<pc, grammar, self, other, ret, cache, stack, val, scratch, queries, lists>>

\* node.annotations.append(x) on one of the objects.
Annotate ==
    /\ \E i \in 1..Len(nodes) :
        /\ Len(lists[nodes[i].node.annotations]) < MaxAnnotations
        /\ lists' = [lists EXCEPT ![nodes[i].node.annotations] = Append(@, "error")]
    /\ UNCHANGED <<pc, grammar, tokens, run, self, other, ret, cache, stack, val, scratch, queries, nodes>>

ObjectsNext == ConstructDefault \/ ConstructWith \/ ParseCall \/ Annotate

ObjectsSpec == ObjectsInit /\ [][ObjectsNext]_vars

\* C9: no two nodes constructed without an annotations argument hold the same annotations list.
C9_OwnAnnotations ==
    \A i, j \in 1..Len(nodes) :
        (i # j /\ nodes[i].defaulted /\ nodes[j].defaulted)
            => nodes[i].node.annotations # nodes[j].node.annotations

====
